---- MODULE Spec2Model ----
(***************************************************************************)
(* Review intelligence pipeline of review-management-backend:              *)
(*   - SearchService (search_service.py): the TF-IDF similarity index,     *)
(*   - AIService (ai_service.py): sentiment, topic and reply generation,   *)
(*   - the request handlers of routes.py that drive both.                  *)
(* A Python str is a sequence of one-character strings; a float score is   *)
(* a fixed-point integer in thousandths.                                   *)
(***************************************************************************)
EXTENDS Integers, Sequences, FiniteSets, TLC

\* Python None in a field that otherwise holds an array or a list: no fitted
\* matrix and no fitted vocabulary is empty, so the empty tuple is free for it
None == <<>>

(***************************************************************************)
(* Bounds of the model.                                                    *)
(***************************************************************************)
MaxK == 2

MaxBatch == 1

(***************************************************************************)
(* Characters and strings.                                                 *)
(***************************************************************************)
LowerOf == "A" :> "a" @@ "B" :> "b" @@ "C" :> "c" @@ "D" :> "d" @@ "E" :> "e" @@ "F" :> "f" @@ "G" :> "g" @@ "H" :> "h" @@ "I" :> "i" @@ "J" :> "j" @@ "K" :> "k" @@ "L" :> "l" @@ "M" :> "m" @@ "N" :> "n" @@ "O" :> "o" @@ "P" :> "p" @@ "Q" :> "q" @@ "R" :> "r" @@ "S" :> "s" @@ "T" :> "t" @@ "U" :> "u" @@ "V" :> "v" @@ "W" :> "w" @@ "X" :> "x" @@ "Y" :> "y" @@ "Z" :> "z"

Alphabet == <<" ", "%", "(", ")", "+", "-", ".", "0", "1", "2", "3", "4", "5", "6", "7", "8", "9", "@", "A", "B", "C", "D", "E", "F", "G", "H", "I", "J", "K", "L", "M", "N", "O", "P", "Q", "R", "S", "T", "U", "V", "W", "X", "Y", "Z", "[", "]", "_", "a", "b", "c", "d", "e", "f", "g", "h", "i", "j", "k", "l", "m", "n", "o", "p", "q", "r", "s", "t", "u", "v", "w", "x", "y", "z", "|">>

Ord(c) == CHOOSE i \in 1..Len(Alphabet) : Alphabet[i] = c

IsDigit(c) == c \in {"0", "1", "2", "3", "4", "5", "6", "7", "8", "9"}

IsLetter(c) == c \in DOMAIN LowerOf \/ c \in {LowerOf[u] : u \in DOMAIN LowerOf}

IsWordChar(c) == IsLetter(c) \/ IsDigit(c) \/ c = "_"

lower(s) == [i \in 1..Len(s) |-> IF s[i] \in DOMAIN LowerOf THEN LowerOf[s[i]] ELSE s[i]]

\* Python's `kw in s` on strings: kw occurs as a contiguous substring of s
Contains(s, kw) == \E i \in 1..(Len(s) - Len(kw) + 1) : SubSeq(s, i, i + Len(kw) - 1) = kw

\* s < t on Python strings: a proper prefix is smaller; otherwise the first
\* position where they differ decides, by code point
StrLess(s, t) ==
    LET m == IF Len(s) < Len(t) THEN Len(s) ELSE Len(t)
        differ == {i \in 1..m : s[i] # t[i]}
    IN  IF differ = {} THEN Len(s) < Len(t)
        ELSE LET d == CHOOSE i \in differ : \A j \in differ : i <= j
             IN  Ord(s[d]) < Ord(t[d])

(***************************************************************************)
(* Review and query texts the model draws its inputs from.                 *)
(***************************************************************************)
TxtThe == <<"T", "h", "e">>

TxtPizza == <<"p", "i", "z", "z", "a">>

TxtGreatPizza == <<"G", "r", "e", "a", "t", " ", "p", "i", "z", "z", "a">>

TxtBadSalad == <<"b", "a", "d", " ", "s", "a", "l", "a", "d">>

QGreatPizza == <<"g", "r", "e", "a", "t", " ", "p", "i", "z", "z", "a">>

QThe == <<"t", "h", "e">>

TxtContact == <<"c", "o", "n", "t", "a", "c", "t", " ", "m", "e", " ", "a", "t", " ", "a", "@", "b", ".", "c", "o", "m", " ", "o", "r", " ", "5", "5", "5", "-", "1", "2", "3", "-", "4", "5", "6", "7">>

TxtGreatButBad == <<"g", "r", "e", "a", "t", " ", "b", "u", "t", " ", "b", "a", "d">>

TxtParenPhone == <<"(", "5", "5", "5", ")", " ", "1", "2", "3", "-", "4", "5", "6", "7">>

TxtFilthy ==
    <<"T", "h", "e", " ", "p", "l", "a", "c", "e", " ", "w", "a", "s", " ",
      "f", "i", "l", "t", "h", "y", " ", "a", "n", "d", " ", "o", "v", "e",
      "r", "p", "r", "i", "c", "e", "d">>

TxtDirtyFood == <<"d", "i", "r", "t", "y", " ", "f", "o", "o", "d">>

TxtFoodStaff ==
    <<"F", "o", "o", "d", " ", "f", "o", "o", "d", " ", "s", "t", "a", "f",
      "f">>

ReviewTexts == {TxtThe, TxtPizza, TxtGreatPizza, TxtBadSalad}

\* the review texts the AIService operations are exercised with
AiTexts == {TxtContact, TxtGreatButBad, TxtParenPhone, TxtBadSalad}

\* the texts extract_topic and the sentiment heuristic are exercised with
TagTexts == {TxtFilthy, TxtDirtyFood, TxtFoodStaff, TxtGreatButBad, TxtGreatPizza, TxtBadSalad}

Queries == {TxtPizza, QGreatPizza, QThe}

ReviewIdSet == {"rev-001", "rev-002"}

\* every text some operation of the model is applied to
AllTexts == ReviewTexts \cup Queries \cup AiTexts \cup TagTexts

(***************************************************************************)
(* TfidfVectorizer(max_features=1000, stop_words='english',                *)
(*                 ngram_range=(1, 2), min_df=1)                           *)
(***************************************************************************)
max_features == 1000

\* the members of the 'english' stop word list that occur in the model texts
StopWords == {<<"t", "h", "e">>, <<"a", "n", "d">>, <<"b", "u", "t">>, <<"w", "a", "s">>, <<"o", "r">>, <<"a", "t">>, <<"m", "e">>}

\* token_pattern (?u)\b\w\w+\b : the maximal runs of two or more word characters
Tokenize(s) ==
    LET isStart(i) == IsWordChar(s[i]) /\ (i = 1 \/ ~IsWordChar(s[i - 1]))
        endOf(i)   == CHOOSE j \in i..Len(s) :
                          /\ \A n \in i..j : IsWordChar(s[n])
                          /\ (j = Len(s) \/ ~IsWordChar(s[j + 1]))
        starts     == {i \in 1..Len(s) : isStart(i) /\ endOf(i) > i}
        nth(n)     == CHOOSE i \in starts : Cardinality({j \in starts : j < i}) = n - 1
    IN  [n \in 1..Cardinality(starts) |-> SubSeq(s, nth(n), endOf(nth(n)))]

\* ngram_range=(1, 2): the unigrams, then the bigrams of adjacent tokens
WordNgrams(tokens) ==
    IF Len(tokens) < 2 THEN tokens
    ELSE tokens \o [i \in 1..(Len(tokens) - 1) |-> tokens[i] \o <<" ">> \o tokens[i + 1]]

\* the analyzer: lowercase, tokenize, drop stop words, build the n-grams
Analyze(text) ==
    WordNgrams(SelectSeq(Tokenize(lower(text)), LAMBDA t : t \notin StopWords))

\* Analyze, tabulated over the texts of the model
AnalyzeOf == [t \in AllTexts |-> Analyze(t)]

Range(f) == {f[i] : i \in DOMAIN f}

CountOf(x, seq) == Cardinality({i \in DOMAIN seq : seq[i] = x})

\* sorted(terms): the n-th term is the one with n - 1 smaller terms
SortTerms(S) ==
    [n \in 1..Cardinality(S) |->
        CHOOSE x \in S : Cardinality({y \in S : StrLess(y, x)}) = n - 1]

\* round(100 * ln(a / b)) for 1 <= b <= a <= 6
LN100 == << <<0>>, <<69, 0>>, <<110, 41, 0>>, <<139, 69, 29, 0>>, <<161, 92, 51, 22, 0>>, <<179, 110, 69, 41, 18, 0>> >>

\* smooth_idf: idf(t) = ln((1 + n) / (1 + df(t))) + 1, in hundredths
Idf(n, df) == 100 + LN100[1 + n][1 + df]

\* max_features: keep the terms with the highest corpus-wide term frequency
LimitFeatures(terms, analyzed) ==
    LET tf(t) == Cardinality({<<i, j>> \in (DOMAIN analyzed) \X (1..(2 * Len(Alphabet))) :
                              j \in DOMAIN analyzed[i] /\ analyzed[i][j] = t})
    IN  IF Cardinality(terms) <= max_features THEN terms
        ELSE CHOOSE S \in SUBSET terms :
                 /\ Cardinality(S) = max_features
                 /\ \A t \in S : \A u \in terms \ S : tf(t) >= tf(u)

\* the document frequency of a term
DocFreq(t, analyzed) == Cardinality({i \in DOMAIN analyzed : t \in Range(analyzed[i])})

\* the fitted vectorizer and the document-term matrix of the analysed texts
fit_weights(analyzed, vocab, idf) ==
    [ok |-> TRUE,
     vectorizer |-> [vocabulary_ |-> vocab, idf_ |-> idf],
     X |-> [i \in DOMAIN analyzed |->
               [j \in DOMAIN vocab |-> CountOf(vocab[j], analyzed[i]) * idf[j]]]]

fit_vocabulary(analyzed, vocab) ==
    fit_weights(analyzed, vocab,
                [j \in DOMAIN vocab |-> Idf(Len(analyzed), DocFreq(vocab[j], analyzed))])

fit_terms(analyzed, terms) ==
    IF terms = {} THEN [ok |-> FALSE]
    ELSE fit_vocabulary(analyzed, SortTerms(LimitFeatures(terms, analyzed)))

fit_analyzed(analyzed) ==
    fit_terms(analyzed, UNION {Range(analyzed[i]) : i \in DOMAIN analyzed})

\* vectorizer.fit_transform(texts): raises ValueError (ok = FALSE) on an empty
\* vocabulary, before the vectorizer is touched; otherwise refits the
\* vectorizer in place and returns the document-term matrix
fit_transform(texts) == fit_analyzed([i \in DOMAIN texts |-> AnalyzeOf[texts[i]]])

\* vectorizer.transform([query]): terms outside the fitted vocabulary are ignored
transform(vectorizer, query) ==
    LET feats == AnalyzeOf[query]
    IN  [j \in DOMAIN vectorizer.vocabulary_ |->
            CountOf(vectorizer.vocabulary_[j], feats) * vectorizer.idf_[j]]

\* fit_transform, tabulated over the corpora the table can hold
TextLists ==
    {texts : texts \in UNION {[1..n -> ReviewTexts \cup TagTexts] : n \in 1..Cardinality(ReviewIdSet)}}

FitOf == [texts \in TextLists |-> fit_transform(texts)]

RECURSIVE SumSeq(_)
SumSeq(s) == IF s = <<>> THEN 0 ELSE s[1] + SumSeq(Tail(s))

Dot(u, v) == SumSeq([j \in DOMAIN u |-> u[j] * v[j]])

\* the integer square root of n, for n up to 1000 * 1000
RECURSIVE ISqrtIn(_, _, _)
ISqrtIn(n, lo, hi) ==
    IF lo = hi THEN lo
    ELSE LET mid == (lo + hi + 1) \div 2
         IN  IF mid * mid <= n THEN ISqrtIn(n, mid, hi) ELSE ISqrtIn(n, lo, mid - 1)

ISqrt(n) == ISqrtIn(n, 0, 1000)

\* cosine_similarity of two rows, in thousandths; a zero row scores 0
cosine_similarity(u, v) ==
    LET d  == Dot(u, v)
        nu == Dot(u, u)
        nv == Dot(v, v)
    IN  IF nu = 0 \/ nv = 0 \/ d = 0 THEN 0
        ELSE ISqrt(((d * 1000) \div nu) * ((d * 1000) \div nv))

(***************************************************************************)
(* AIService: construction, sentiment and topic (ai_service.py).           *)
(***************************************************************************)
\* AIService.__init__: the attributes the constructor leaves on the object.
\* cohere_client is TRUE when the attribute exists; sentiment_analyzer is
\* "unset" when the attribute was never assigned, "None" when the local
\* models failed to load, "pipeline" when they loaded.
AIService__init__(cohere_api_key, use_local_model, client_ok, models_ok) ==
    LET use_local0 == use_local_model \/ cohere_api_key = "None"
        try_client == ~use_local0 /\ cohere_api_key # "None"
        use_local  == use_local0 \/ (try_client /\ ~client_ok)
    IN  [use_local          |-> use_local,
         cohere_client      |-> try_client /\ client_ok,
         sentiment_analyzer |-> IF ~use_local THEN "unset"
                                ELSE IF models_ok THEN "pipeline" ELSE "None"]

positive_words ==
    << <<"g", "r", "e", "a", "t">>,
       <<"e", "x", "c", "e", "l", "l", "e", "n", "t">>,
       <<"a", "m", "a", "z", "i", "n", "g">>,
       <<"w", "o", "n", "d", "e", "r", "f", "u", "l">>,
       <<"l", "o", "v", "e">>,
       <<"b", "e", "s", "t">>,
       <<"f", "a", "n", "t", "a", "s", "t", "i", "c">>,
       <<"a", "w", "e", "s", "o", "m", "e">> >>

negative_words ==
    << <<"b", "a", "d">>,
       <<"t", "e", "r", "r", "i", "b", "l", "e">>,
       <<"w", "o", "r", "s", "t">>,
       <<"a", "w", "f", "u", "l">>,
       <<"h", "o", "r", "r", "i", "b", "l", "e">>,
       <<"p", "o", "o", "r">>,
       <<"d", "i", "s", "a", "p", "p", "o", "i", "n", "t", "i", "n", "g">>,
       <<"h", "a", "t", "e">> >>

kw_service ==
    << <<"s", "e", "r", "v", "i", "c", "e">>,
       <<"s", "t", "a", "f", "f">>,
       <<"w", "a", "i", "t", "e", "r">>,
       <<"w", "a", "i", "t", "r", "e", "s", "s">>,
       <<"e", "m", "p", "l", "o", "y", "e", "e">>,
       <<"f", "r", "i", "e", "n", "d", "l", "y">>,
       <<"r", "u", "d", "e">>,
       <<"h", "e", "l", "p", "f", "u", "l">>,
       <<"s", "l", "o", "w">> >>

kw_cleanliness ==
    << <<"c", "l", "e", "a", "n">>,
       <<"d", "i", "r", "t", "y">>,
       <<"h", "y", "g", "i", "e", "n", "e">>,
       <<"s", "a", "n", "i", "t", "a", "r", "y">>,
       <<"m", "e", "s", "s">>,
       <<"s", "p", "o", "t", "l", "e", "s", "s">>,
       <<"f", "i", "l", "t", "h", "y">> >>

kw_price ==
    << <<"p", "r", "i", "c", "e">>,
       <<"e", "x", "p", "e", "n", "s", "i", "v", "e">>,
       <<"c", "h", "e", "a", "p">>,
       <<"c", "o", "s", "t">>,
       <<"v", "a", "l", "u", "e">>,
       <<"o", "v", "e", "r", "p", "r", "i", "c", "e", "d">>,
       <<"a", "f", "f", "o", "r", "d", "a", "b", "l", "e">>,
       <<"w", "o", "r", "t", "h">> >>

kw_food ==
    << <<"f", "o", "o", "d">>,
       <<"m", "e", "a", "l">>,
       <<"d", "i", "s", "h">>,
       <<"t", "a", "s", "t", "e">>,
       <<"d", "e", "l", "i", "c", "i", "o", "u", "s">>,
       <<"b", "l", "a", "n", "d">>,
       <<"f", "r", "e", "s", "h">>,
       <<"s", "t", "a", "l", "e">>,
       <<"m", "e", "n", "u">> >>

kw_ambiance ==
    << <<"a", "t", "m", "o", "s", "p", "h", "e", "r", "e">>,
       <<"a", "m", "b", "i", "a", "n", "c", "e">>,
       <<"d", "e", "c", "o", "r">>,
       <<"m", "u", "s", "i", "c">>,
       <<"l", "o", "u", "d">>,
       <<"q", "u", "i", "e", "t">>,
       <<"c", "o", "z", "y">>,
       <<"c", "o", "m", "f", "o", "r", "t", "a", "b", "l", "e">> >>


topic_names == <<"service", "cleanliness", "price", "food", "ambiance">>

topic_keywords == <<kw_service, kw_cleanliness, kw_price, kw_food, kw_ambiance>>

\* a score of one for a keyword list with any hit
KeywordHits_any(words, text_lower) ==
    IF \E i \in DOMAIN words : Contains(text_lower, words[i]) THEN 1 ELSE 0

\* sum(1 for word in words if word in text_lower)
KeywordHits(words, text_lower) ==
    Cardinality({i \in DOMAIN words : Contains(text_lower, words[i])})

\* _fallback_sentiment with the first comparison not strict
_fallback_sentiment_lenient(text) ==
    LET text_lower == lower(text)
        pos_count  == KeywordHits(positive_words, text_lower)
        neg_count  == KeywordHits(negative_words, text_lower)
    IN  IF pos_count >= neg_count THEN "positive"
        ELSE IF neg_count > pos_count THEN "negative"
        ELSE "neutral"

_fallback_sentiment(text) ==
    LET text_lower == lower(text)
        pos_count  == KeywordHits(positive_words, text_lower)
        neg_count  == KeywordHits(negative_words, text_lower)
    IN  IF pos_count > neg_count THEN "positive"
        ELSE IF neg_count > pos_count THEN "negative"
        ELSE "neutral"

\* _fallback_sentiment, tabulated over the texts of the model
FallbackOf == [t \in AllTexts |-> _fallback_sentiment(t)]

\* the value of a call that propagates an exception to its caller
Raised == "<raised>"

\* what a provider call can do: raise, or answer.  The local classifier
\* answers a binary label with a confidence in hundredths; the remote
\* classifier answers one of the labels of its examples.
ProviderRaise == [kind |-> "raise"]

LocalAnswers == [kind : {"local"}, label : {"POSITIVE", "NEGATIVE"}, score : {55, 99}]

RemoteAnswers == [kind : {"remote"}, prediction : {"positive", "negative", "neutral"}]

LabelLower == "POSITIVE" :> "positive" @@ "NEGATIVE" :> "negative"

\* the answers the provider that analyze_sentiment reaches can give
SentimentResponses(self) ==
    IF self.use_local /\ self.sentiment_analyzer = "pipeline"
    THEN {ProviderRaise} \cup LocalAnswers
    ELSE {ProviderRaise} \cup RemoteAnswers

\* the provider behaviours the ingestion handler is exercised with
IngestResponses(self) ==
    IF self.use_local /\ self.sentiment_analyzer = "pipeline"
    THEN {ProviderRaise, [kind |-> "local", label |-> "POSITIVE", score |-> 55]}
    ELSE {ProviderRaise, [kind |-> "remote", prediction |-> "negative"]}

\* analyze_sentiment with the client attribute looked up outside the try block
analyze_sentiment_unguarded(self, text, resp) ==
    IF self.use_local /\ self.sentiment_analyzer = "pipeline"
    THEN IF resp.kind = "raise" THEN FallbackOf[text]
         ELSE LET label == LabelLower[resp.label]
              IN  IF label = "positive" /\ resp.score > 60 THEN "positive"
                  ELSE IF label = "negative" /\ resp.score > 60 THEN "negative"
                  ELSE "neutral"
    ELSE IF ~self.cohere_client THEN Raised
         ELSE IF resp.kind = "raise" THEN FallbackOf[text]
         ELSE resp.prediction

\* analyze_sentiment returning the classifier's own label when it is confident
analyze_sentiment_passthrough(self, text, resp) ==
    IF self.use_local /\ self.sentiment_analyzer = "pipeline"
    THEN IF resp.kind = "raise" THEN FallbackOf[text]
         ELSE IF resp.score > 60 THEN resp.label ELSE "neutral"
    ELSE IF ~self.cohere_client \/ resp.kind = "raise" THEN FallbackOf[text]
         ELSE resp.prediction

analyze_sentiment(self, text, resp) ==
    IF self.use_local /\ self.sentiment_analyzer = "pipeline"
    THEN IF resp.kind = "raise" THEN FallbackOf[text]
         ELSE LET label == LabelLower[resp.label]
              IN  IF label = "positive" /\ resp.score > 60 THEN "positive"
                  ELSE IF label = "negative" /\ resp.score > 60 THEN "negative"
                  ELSE "neutral"
    ELSE \* self.cohere_client: AttributeError when the attribute is missing
         IF ~self.cohere_client \/ resp.kind = "raise" THEN FallbackOf[text]
         ELSE resp.prediction

\* extract_topic where the last topic reaching the highest score wins
extract_topic_last(text) ==
    LET text_lower == lower(text)
        score(i)   == KeywordHits(topic_keywords[i], text_lower)
        scored     == {i \in DOMAIN topic_names : score(i) > 0}
    IN  IF scored = {} THEN "other"
        ELSE topic_names[CHOOSE i \in scored :
                             /\ \A j \in scored : score(j) <= score(i)
                             /\ \A j \in scored : j > i => score(j) < score(i)]

\* max(topic_scores, key=topic_scores.get): the first topic, in the order of
\* the keyword table, that reaches the highest score
extract_topic(text) ==
    LET text_lower == lower(text)
        score(i)   == KeywordHits(topic_keywords[i], text_lower)
        scored     == {i \in DOMAIN topic_names : score(i) > 0}
    IN  IF scored = {} THEN "other"
        ELSE topic_names[CHOOSE i \in scored :
                             /\ \A j \in scored : score(j) <= score(i)
                             /\ \A j \in scored : j < i => score(j) < score(i)]

\* extract_topic, tabulated over the texts of the model
TopicOf == [t \in AllTexts |-> extract_topic(t)]

(***************************************************************************)
(* AIService: sanitization and reply generation (ai_service.py).           *)
(***************************************************************************)
At(s, i) == IF i \in 1..Len(s) THEN s[i] ELSE ""

\* \b before position i: exactly one of the characters around it is a word
\* character
Boundary(s, i) == (At(s, i - 1) # "" /\ IsWordChar(At(s, i - 1))) # (At(s, i) # "" /\ IsWordChar(At(s, i)))

IsChar(s, i) == At(s, i) # ""

InLocal(c) == IsLetter(c) \/ IsDigit(c) \/ c \in {".", "_", "%", "+", "-"}

InDomain(c) == IsLetter(c) \/ IsDigit(c) \/ c \in {".", "-"}

InTld(c) == IsLetter(c) \/ c = "|"

InSep(c) == c \in {"-", "."}

InClass(class, c) ==
    CASE class = "local"  -> InLocal(c)
      [] class = "domain" -> InDomain(c)
      [] class = "tld"    -> InTld(c)
      [] class = "space"  -> c = " "

\* the last index of the maximal run of characters of class In from i on
\* (i - 1 when s[i] is not in the class)
RunEnd(s, i, class) ==
    IF ~(IsChar(s, i) /\ InClass(class, s[i])) THEN i - 1
    ELSE CHOOSE j \in i..Len(s) :
             /\ \A n \in i..j : InClass(class, s[n])
             /\ (j = Len(s) \/ ~InClass(class, s[j + 1]))

Digits(s, i, n) == \A m \in i..(i + n - 1) : IsChar(s, m) /\ IsDigit(s[m])

\* the ends the top-level part that starts at p can have: two or more of its
\* characters, up to the end of their run, followed by a \b
TldEnds(s, p) == {e \in (p + 1)..RunEnd(s, p, "tld") : Boundary(s, e + 1)}

Max(S) == CHOOSE x \in S : \A y \in S : y <= x

\* the domain starts at p and its run of characters ends at b: the dots in
\* it that a top-level part follows
Dots(s, p, b) == {x \in (p + 1)..b : At(s, x) = "." /\ TldEnds(s, x + 1) # {}}

\* the longest domain that is followed by a dot and a top-level part, then
\* the longest top-level part
DomainEnd(s, p, b) ==
    IF Dots(s, p, b) = {} THEN 0 ELSE Max(TldEnds(s, Max(Dots(s, p, b)) + 1))

\* the local part ends at a
LocalEnd(s, i, a) ==
    IF a < i \/ At(s, a + 1) # "@" THEN 0
    ELSE DomainEnd(s, a + 2, RunEnd(s, a + 2, "domain"))

\* \b[A-Za-z0-9._%+-]+@[A-Za-z0-9.-]+\.[A-Z|a-z]{2,}\b matched at i: the index
\* of the last matched character, 0 when there is no match.  Quantifiers are
\* greedy: the longest local part, the longest domain, then the longest
\* top-level part, that let the rest of the pattern match.
EmailEnd(s, i) ==
    IF ~Boundary(s, i) THEN 0 ELSE LocalEnd(s, i, RunEnd(s, i, "local"))

\* \b\d{3}[-.]?\d{3}[-.]?\d{4}\b matched at i
PhoneEnd(s, i) ==
    LET j == IF IsChar(s, i + 3) /\ InSep(s[i + 3]) THEN i + 4 ELSE i + 3
        m == IF IsChar(s, j + 3) /\ InSep(s[j + 3]) THEN j + 4 ELSE j + 3
    IN  IF Boundary(s, i) /\ Digits(s, i, 3) /\ Digits(s, j, 3) /\ Digits(s, m, 4)
           /\ Boundary(s, m + 4)
        THEN m + 3 ELSE 0

\* \b\(\d{3}\)\s*\d{3}[-.]?\d{4}\b matched at i
ParenPhoneEnd(s, i) ==
    LET j == RunEnd(s, i + 5, "space") + 1
        m == IF IsChar(s, j + 3) /\ InSep(s[j + 3]) THEN j + 4 ELSE j + 3
    IN  IF Boundary(s, i) /\ At(s, i) = "(" /\ Digits(s, i + 1, 3) /\ At(s, i + 4) = ")"
           /\ Digits(s, j, 3) /\ Digits(s, m, 4) /\ Boundary(s, m + 4)
        THEN m + 3 ELSE 0

MatchEnd(pattern, s, i) ==
    CASE pattern = "email" -> EmailEnd(s, i)
      [] pattern = "phone" -> PhoneEnd(s, i)
      [] pattern = "paren_phone" -> ParenPhoneEnd(s, i)

\* re.sub(pattern, repl, s) from position i: leftmost matches, left to right
RECURSIVE re_sub(_, _, _, _)

\* one step of the scan at i, where the match tried at i ends at e
re_step(pattern, repl, s, i, e) ==
    IF e >= i THEN repl \o re_sub(pattern, repl, s, e + 1)
    ELSE <<s[i]>> \o re_sub(pattern, repl, s, i + 1)

re_sub(pattern, repl, s, i) ==
    IF i > Len(s) THEN <<>>
    ELSE re_step(pattern, repl, s, i, MatchEnd(pattern, s, i))

EMAIL == <<"[", "E", "M", "A", "I", "L", "]">>

PHONE == <<"[", "P", "H", "O", "N", "E", "]">>

_sanitize_text(text) ==
    re_sub("paren_phone", PHONE,
           re_sub("phone", PHONE,
                  re_sub("email", EMAIL, text, 1), 1), 1)

\* _sanitize_text, tabulated over the texts of the model
SanitizeOf == [t \in AllTexts |-> _sanitize_text(t)]

\* " ".join(context_parts), kept as the list of its sentences
_build_reply_context(rating, sentiment, topic) ==
    (IF sentiment = "negative" THEN <<"Acknowledge the issue and apologize sincerely.">>
     ELSE IF sentiment = "positive" THEN <<"Express gratitude and appreciation.">>
     ELSE <<>>)
    \o
    (IF topic = "service" THEN <<"Address service-related concerns.">>
     ELSE IF topic = "food" THEN <<"Comment on the food quality feedback.">>
     ELSE IF topic = "cleanliness" THEN <<"Take hygiene concerns seriously.">>
     ELSE IF topic = "price" THEN <<"Acknowledge value concerns.">>
     ELSE <<>>)

\* str.strip(): leading and trailing whitespace removed
strip(s) ==
    LET inked == {i \in DOMAIN s : s[i] # " "}
    IN  IF inked = {} THEN <<>>
        ELSE SubSeq(s, CHOOSE i \in inked : \A j \in inked : i <= j,
                       CHOOSE i \in inked : \A j \in inked : j <= i)

RatingStr == <<"1", "2", "3", "4", "5">>

GenThanks == <<" ", "T", "h", "a", "n", "k", "s", "!", " ">>

GenBlank == <<" ", " ">>

\* what the remote generation call can do: raise, answer without a
\* generation, or answer with a text
Generations ==
    {[kind |-> "raise"], [kind |-> "empty"],
     [kind |-> "text", text |-> GenThanks], [kind |-> "text", text |-> GenBlank]}

\* _generate_with_cohere: the prompt built from the text it is given, and the
\* stripped completion; raises when the client does
_generate_with_cohere(text, context, rating, sentiment, gen) ==
    LET prompt == [rating |-> rating, sentiment |-> sentiment, text |-> text, context |-> context]
    IN  IF gen.kind \in {"raise", "empty"}
        THEN [raised |-> TRUE, calls |-> <<[step |-> "cohere", text |-> prompt.text]>>]
        ELSE [raised    |-> FALSE,
              reply     |-> strip(gen.text),
              reasoning |-> <<"Generated using Cohere API with temperature=0.7, considering ",
                              sentiment, " sentiment and ", RatingStr[rating], "-star rating.">>,
              calls     |-> <<[step |-> "cohere", text |-> prompt.text]>>]

TplPositive1 ==
    <<"T", "h", "a", "n", "k", " ", "y", "o", "u", " ", "s", "o", " ", "m", "u", "c", "h", " ",
      "f", "o", "r", " ", "y", "o", "u", "r", " ", "w", "o", "n", "d", "e", "r", "f", "u", "l",
      " ", "f", "e", "e", "d", "b", "a", "c", "k", "!", " ", "W", "e", "'", "r", "e", " ", "t",
      "h", "r", "i", "l", "l", "e", "d", " ", "t", "o", " ", "h", "e", "a", "r", " ", "y", "o",
      "u", " ", "h", "a", "d", " ", "a", " ", "g", "r", "e", "a", "t", " ", "e", "x", "p", "e",
      "r", "i", "e", "n", "c", "e", ".", " ", "W", "e", " ", "l", "o", "o", "k", " ", "f", "o",
      "r", "w", "a", "r", "d", " ", "t", "o", " ", "w", "e", "l", "c", "o", "m", "i", "n", "g",
      " ", "y", "o", "u", " ", "b", "a", "c", "k", " ", "s", "o", "o", "n", "!">>

TplPositive2 ==
    <<"W", "e", "'", "r", "e", " ", "s", "o", " ", "g", "l", "a", "d", " ", "y", "o", "u", " ",
      "e", "n", "j", "o", "y", "e", "d", " ", "y", "o", "u", "r", " ", "v", "i", "s", "i", "t",
      "!", " ", "Y", "o", "u", "r", " ", "k", "i", "n", "d", " ", "w", "o", "r", "d", "s", " ",
      "m", "e", "a", "n", " ", "a", " ", "l", "o", "t", " ", "t", "o", " ", "o", "u", "r", " ",
      "t", "e", "a", "m", ".", " ", "H", "o", "p", "e", " ", "t", "o", " ", "s", "e", "e", " ",
      "y", "o", "u", " ", "a", "g", "a", "i", "n", "!">>

TplNegative1 ==
    <<"W", "e", " ", "s", "i", "n", "c", "e", "r", "e", "l", "y", " ", "a", "p", "o", "l", "o",
      "g", "i", "z", "e", " ", "f", "o", "r", " ", "y", "o", "u", "r", " ", "d", "i", "s", "a",
      "p", "p", "o", "i", "n", "t", "i", "n", "g", " ", "e", "x", "p", "e", "r", "i", "e", "n",
      "c", "e", ".", " ", "T", "h", "i", "s", " ", "i", "s", " ", "n", "o", "t", " ", "t", "h",
      "e", " ", "s", "t", "a", "n", "d", "a", "r", "d", " ", "w", "e", " ", "a", "i", "m", " ",
      "f", "o", "r", ".", " ", "P", "l", "e", "a", "s", "e", " ", "c", "o", "n", "t", "a", "c",
      "t", " ", "u", "s", " ", "d", "i", "r", "e", "c", "t", "l", "y", " ", "s", "o", " ", "w",
      "e", " ", "c", "a", "n", " ", "m", "a", "k", "e", " ", "t", "h", "i", "s", " ", "r", "i",
      "g", "h", "t", ".">>

TplNegative2 ==
    <<"T", "h", "a", "n", "k", " ", "y", "o", "u", " ", "f", "o", "r", " ", "b", "r", "i", "n",
      "g", "i", "n", "g", " ", "t", "h", "i", "s", " ", "t", "o", " ", "o", "u", "r", " ", "a",
      "t", "t", "e", "n", "t", "i", "o", "n", ".", " ", "W", "e", "'", "r", "e", " ", "t", "r",
      "u", "l", "y", " ", "s", "o", "r", "r", "y", " ", "f", "o", "r", " ", "f", "a", "l", "l",
      "i", "n", "g", " ", "s", "h", "o", "r", "t", " ", "o", "f", " ", "y", "o", "u", "r", " ",
      "e", "x", "p", "e", "c", "t", "a", "t", "i", "o", "n", "s", " ", "a", "n", "d", " ", "w",
      "o", "u", "l", "d", " ", "l", "i", "k", "e", " ", "t", "h", "e", " ", "o", "p", "p", "o",
      "r", "t", "u", "n", "i", "t", "y", " ", "t", "o", " ", "i", "m", "p", "r", "o", "v", "e",
      " ", "y", "o", "u", "r", " ", "e", "x", "p", "e", "r", "i", "e", "n", "c", "e", ".">>

TplNeutral1 ==
    <<"T", "h", "a", "n", "k", " ", "y", "o", "u", " ", "f", "o", "r", " ", "t", "a", "k", "i",
      "n", "g", " ", "t", "h", "e", " ", "t", "i", "m", "e", " ", "t", "o", " ", "s", "h", "a",
      "r", "e", " ", "y", "o", "u", "r", " ", "f", "e", "e", "d", "b", "a", "c", "k", ".", " ",
      "W", "e", " ", "a", "p", "p", "r", "e", "c", "i", "a", "t", "e", " ", "y", "o", "u", "r",
      " ", "c", "o", "m", "m", "e", "n", "t", "s", " ", "a", "n", "d", " ", "a", "r", "e", " ",
      "a", "l", "w", "a", "y", "s", " ", "w", "o", "r", "k", "i", "n", "g", " ", "t", "o", " ",
      "i", "m", "p", "r", "o", "v", "e", ".", " ", "W", "e", " ", "h", "o", "p", "e", " ", "t",
      "o", " ", "s", "e", "r", "v", "e", " ", "y", "o", "u", " ", "b", "e", "t", "t", "e", "r",
      " ", "n", "e", "x", "t", " ", "t", "i", "m", "e", "!">>

templates ==
    [positive |-> <<TplPositive1, TplPositive2>>,
     negative |-> <<TplNegative1, TplNegative2>>,
     neutral  |-> <<TplNeutral1>>]

\* templates.get with the positive bank as the default
TemplateBank_default_positive(sentiment) ==
    IF sentiment \in DOMAIN templates THEN templates[sentiment] ELSE templates["positive"]

\* templates.get(sentiment, templates['neutral'])
TemplateBank(sentiment) ==
    IF sentiment \in DOMAIN templates THEN templates[sentiment] ELSE templates["neutral"]

\* _generate_with_local: random.choice picks the template at index pick
_generate_with_local(text, context, rating, sentiment, pick) ==
    [raised    |-> FALSE,
     reply     |-> TemplateBank(sentiment)[pick],
     reasoning |-> <<"Generated using template-based approach for ", sentiment,
                     " sentiment (", RatingStr[rating], "-star rating).">>,
     calls     |-> <<[step |-> "local", text |-> text]>>]

\* generate_reply lines 125-129: the remote result, or the fallback when the
\* remote step raised
try_cohere(remote, fallback) ==
    IF remote.raised
    THEN [fallback EXCEPT !.calls = remote.calls \o fallback.calls]
    ELSE remote

\* generate_reply lines 124-131, handed sanitized_text and context
generate_from(self, cohere_api_key, sanitized_text, context, rating, sentiment, gen, pick) ==
    IF ~self.use_local /\ cohere_api_key # "None"
    THEN try_cohere(_generate_with_cohere(sanitized_text, context, rating, sentiment, gen),
                    _generate_with_local(sanitized_text, context, rating, sentiment, pick))
    ELSE _generate_with_local(sanitized_text, context, rating, sentiment, pick)

\* generate_reply whose generation steps are handed review_text
generate_reply_raw(self, cohere_api_key, review_text, rating, sentiment, topic, gen, pick) ==
    generate_from(self, cohere_api_key, review_text,
                  _build_reply_context(rating, sentiment, topic), rating, sentiment, gen, pick)

\* generate_reply; cohere_api_key is settings.cohere_api_key.  calls lists the
\* generation steps entered and the review text each was handed.
generate_reply(self, cohere_api_key, review_text, rating, sentiment, topic, gen, pick) ==
    generate_from(self, cohere_api_key, SanitizeOf[review_text],
                  _build_reply_context(rating, sentiment, topic), rating, sentiment, gen, pick)

(***************************************************************************)
(* SearchService (search_service.py).                                      *)
(***************************************************************************)
\* SearchService.__init__
SearchService__init__ ==
    [vectorizer     |-> [vocabulary_ |-> None, idf_ |-> None],
     review_vectors |-> None,
     review_ids     |-> <<>>]

\* db.query(Review).all() as the list of (id, text) the index is built from
Corpus(db) == [i \in DOMAIN db |-> [id |-> db[i].id, text |-> db[i].text]]

\* index_reviews lines 38-46: the ids are assigned, then the vectorizer is
\* refitted and the vectors assigned, or the vectors are set to None
index_fit(self, ids, ft) ==
    IF ft.ok
    THEN [self |-> [vectorizer     |-> ft.vectorizer,
                    review_vectors |-> ft.X,
                    review_ids     |-> ids],
          log  |-> "Indexed reviews for search"]
    ELSE [self |-> [vectorizer     |-> self.vectorizer,
                    review_vectors |-> None,
                    review_ids     |-> ids],
          log  |-> "Error indexing reviews"]

\* SearchService.index_reviews(db): the service after the call and the line
\* it prints
index_reviews(self, db) ==
    IF db = <<>> THEN [self |-> self, log |-> "No reviews to index"]
    ELSE index_fit(self, [i \in DOMAIN db |-> db[i].id],
                   FitOf[[i \in DOMAIN db |-> db[i].text]])

\* SearchService.refresh_index(db)
refresh_index(self, db) == index_reviews(self, db)

Perms(S) == {p \in [1..Cardinality(S) -> S] : \A i, j \in DOMAIN p : i # j => p[i] # p[j]}

\* np.argsort(similarities): an ascending order of the indices.  The default
\* kind is not a stable sort, so equal scores may come out in either order.
argsort(similarities) ==
    {p \in Perms(DOMAIN similarities) :
        \A i, j \in DOMAIN p : i < j => similarities[p[i]] <= similarities[p[j]]}

\* [:k] without the reversal: the k lowest-scoring indices
TopK_ascending(order, k) ==
    [i \in 1..(IF k < Len(order) THEN k ELSE Len(order)) |-> order[i]]

\* [::-1][:k]
TopK(order, k) ==
    [i \in 1..(IF k < Len(order) THEN k ELSE Len(order)) |-> order[Len(order) + 1 - i]]

\* the minimum similarity threshold 0.01, in thousandths
min_similarity == 10

\* lines 80-89 of search: the lists the loop over the top indices can build;
\* an index past the end of review_ids raises, and search returns the empty list
collect(review_ids, similarities, k) ==
    LET result(order) ==
            LET top_indices == TopK(order, k)
                kept == SelectSeq(top_indices, LAMBDA idx : similarities[idx] > min_similarity)
            IN  IF \E n \in DOMAIN kept : kept[n] > Len(review_ids) THEN <<>>
                ELSE [n \in DOMAIN kept |-> <<review_ids[kept[n]], similarities[kept[n]]>>]
    IN  {result(order) : order \in argsort(similarities)}

\* lines 77-89 of search
search_ranked(review_ids, X, query_vector, k) ==
    IF \E i \in DOMAIN X : Len(X[i]) # Len(query_vector) THEN {<<>>}
    ELSE collect(review_ids, [i \in DOMAIN X |-> cosine_similarity(query_vector, X[i])], k)

\* lines 72-93 of search: the lists the body can return on the given service
\* state; an exception inside the try block returns the empty list
search_body(self, query, k) ==
    IF self.vectorizer.vocabulary_ = None THEN {<<>>}
    ELSE search_ranked(self.review_ids, self.review_vectors,
                       transform(self.vectorizer, query), k)

\* lines 69-93 of search, on the service a re-index has left
search_indexed(ix, query, k) ==
    [self    |-> ix.self,
     log     |-> ix.log,
     results |-> IF ix.self.review_vectors = None \/ Len(ix.self.review_ids) = 0 THEN {<<>>}
                 ELSE search_body(ix.self, query, k)]

\* SearchService.search(query, db, k): the service after the call (it may
\* re-index), the line printed by a re-index, and the lists it can return
search(self, query, db, k) ==
    search_indexed(IF self.review_vectors = None THEN index_reviews(self, db)
                   ELSE [self |-> self, log |-> "None"],
                   query, k)

(***************************************************************************)
(* State.                                                                  *)
(***************************************************************************)
VARIABLES
    store,           \* the reviews table, in row order
    search_service,  \* the global SearchService instance
    ai_service,      \* the global AIService instance
    log,             \* the line index_reviews printed in the last request, if any
    out,             \* the response of the last request
    hist,            \* history: the corpora index_reviews has read
    threads          \* the two threads of the concurrent run: position and locals

vars == <<store, search_service, ai_service, log, out, hist, threads>>

\* the AIService instances the configuration can produce
AIServices ==
    {AIService__init__(key, ulm, c, m) :
        key \in {"None", "key"}, ulm \in BOOLEAN, c \in BOOLEAN, m \in BOOLEAN}

\* history kept for the properties: the corpus read by the most recent call
\* of index_reviews (None before the first call) and the last non-empty one
Track(h, db) ==
    [h EXCEPT !.called = TRUE,
              !.last_corpus = Corpus(db),
              !.snapshot = IF db = <<>> THEN h.snapshot ELSE Corpus(db)]

\* no call of index_reviews or search is in progress
Idle ==
    [refresh |-> [pc |-> "idle", reviews |-> None, X |-> None],
     search  |-> [pc |-> "idle", query |-> None, k |-> 0,
                  query_vector |-> None, similarities |-> None],
     pre     |-> None,
     post    |-> None]

NoHistory == [called |-> FALSE, last_corpus |-> <<>>, snapshot |-> <<>>, refreshed |-> FALSE]

Init ==
    /\ store = <<>>
    /\ search_service = SearchService__init__
    /\ ai_service \in AIServices
    /\ log = "None"
    /\ out = [op |-> "none"]
    /\ hist = NoHistory
    /\ threads = Idle

(***************************************************************************)
(* Request handlers (routes.py) and process lifecycle (main.py).           *)
(***************************************************************************)
\* the review submissions the model ingests
ReviewCreate ==
    {[id |-> "rev-001", location |-> "NYC", rating |-> 5, text |-> TxtGreatPizza, date |-> "2024-01-15"],
     [id |-> "rev-001", location |-> "LA",  rating |-> 2, text |-> TxtBadSalad,   date |-> "2024-02-20"],
     [id |-> "rev-001", location |-> "LA",  rating |-> 2, text |-> TxtThe,        date |-> "2024-03-01"],
     [id |-> "rev-002", location |-> "NYC", rating |-> 5, text |-> TxtPizza,      date |-> "2024-01-15"],
     [id |-> "rev-002", location |-> "LA",  rating |-> 5, text |-> TxtGreatPizza, date |-> "2024-02-20"],
     [id |-> "rev-002", location |-> "LA",  rating |-> 2, text |-> TxtThe,        date |-> "2024-03-01"]}

Batches == UNION {[1..n -> ReviewCreate] : n \in 0..MaxBatch}

RowOf(db, id) == CHOOSE i \in DOMAIN db : db[i].id = id

\* the loop of ingest_reviews where only a new row is analysed
RECURSIVE ingest_loop_keep_tags(_, _, _, _, _)
ingest_loop_keep_tags(self, db, pending, batch, resps) ==
    IF batch = <<>> THEN [db |-> db, pending |-> pending]
    ELSE LET review_data == batch[1]
             analysed    == analyze_sentiment(self, review_data.text, resps[1])
             sentiment   == IF analysed = Raised THEN "neutral" ELSE analysed
             topic       == IF analysed = Raised THEN "other" ELSE TopicOf[review_data.text]
             existing    == \E i \in DOMAIN db : db[i].id = review_data.id
             review      == [id        |-> review_data.id,
                             location  |-> review_data.location,
                             rating    |-> review_data.rating,
                             text      |-> review_data.text,
                             date      |-> review_data.date,
                             sentiment |-> sentiment,
                             topic     |-> topic]
         IN  IF existing
             THEN ingest_loop_keep_tags(self, [db EXCEPT ![RowOf(db, review_data.id)] =
                                             [review EXCEPT !.sentiment = db[RowOf(db, review_data.id)].sentiment,
                                                            !.topic = db[RowOf(db, review_data.id)].topic]],
                              pending, Tail(batch), Tail(resps))
             ELSE ingest_loop_keep_tags(self, db, Append(pending, review), Tail(batch), Tail(resps))

\* the loop of ingest_reviews, lines 41-73: rows found by the query are
\* updated in place, the others are added to the session; the session does
\* not autoflush, so a row added earlier in the batch is not found
RECURSIVE ingest_loop(_, _, _, _, _)
ingest_loop(self, db, pending, batch, resps) ==
    IF batch = <<>> THEN [db |-> db, pending |-> pending]
    ELSE LET review_data == batch[1]
             analysed    == analyze_sentiment(self, review_data.text, resps[1])
             sentiment   == IF analysed = Raised THEN "neutral" ELSE analysed
             topic       == IF analysed = Raised THEN "other" ELSE TopicOf[review_data.text]
             existing    == \E i \in DOMAIN db : db[i].id = review_data.id
             review      == [id        |-> review_data.id,
                             location  |-> review_data.location,
                             rating    |-> review_data.rating,
                             text      |-> review_data.text,
                             date      |-> review_data.date,
                             sentiment |-> sentiment,
                             topic     |-> topic]
         IN  IF existing
             THEN ingest_loop(self, [db EXCEPT ![RowOf(db, review_data.id)] = review],
                              pending, Tail(batch), Tail(resps))
             ELSE ingest_loop(self, db, Append(pending, review), Tail(batch), Tail(resps))

\* db.commit(): two added rows with one primary key raise IntegrityError
commit_ok(pending) == \A i, j \in DOMAIN pending : i # j => pending[i].id # pending[j].id

\* POST /ingest
ingest_reviews(batch, resps) ==
    \E r \in {ingest_loop(ai_service, store, <<>>, batch, resps)} :
        IF commit_ok(r.pending)
        THEN \E db \in {r.db \o r.pending} :
             \E ix \in {refresh_index(search_service, db)} :
                 /\ store' = db
                 /\ search_service' = ix.self
                 /\ log' = ix.log
                 /\ hist' = [Track(hist, db) EXCEPT !.refreshed = TRUE]
                 /\ out' = [op |-> "ingest", request |-> batch, resps |-> resps,
                            status |-> 200, success |-> TRUE, count |-> Len(batch)]
                 /\ UNCHANGED <<ai_service, threads>>
        ELSE /\ out' = [op |-> "ingest", request |-> batch, resps |-> resps, status |-> 500]
             /\ log' = "None"
             /\ UNCHANGED <<store, search_service, ai_service, hist, threads>>

\* GET /search: the service's results, and the response built from the
\* results whose review is still in the table
search_reviews(q, k) ==
    \E r \in {search(search_service, q, store, k)} :
        \E results \in r.results :
            /\ search_service' = r.self
            /\ log' = r.log
            /\ hist' = IF search_service.review_vectors = None THEN Track(hist, store) ELSE hist
            /\ out' = [op |-> "search", status |-> 200, query |-> q, k |-> k,
                       results  |-> results,
                       response |-> SelectSeq(results, LAMBDA t : \E i \in DOMAIN store : store[i].id = t[1])]
            /\ UNCHANGED <<store, ai_service, threads>>

\* lifespan (main.py): a process start builds the module-level services and
\* indexes the table
lifespan ==
    \E ix \in {index_reviews(SearchService__init__, store)} :
        /\ search_service' = ix.self
        /\ log' = ix.log
        /\ hist' = Track(hist, store)
        /\ out' = [op |-> "startup"]
        /\ UNCHANGED <<store, ai_service, threads>>

\* Base.metadata.drop_all / create_all of the test fixture: the table is
\* emptied under the running process
drop_all ==
    /\ store # <<>>
    /\ store' = <<>>
    /\ out' = [op |-> "drop_all"]
    /\ log' = "None"
    /\ hist' = [hist EXCEPT !.refreshed = FALSE]
    /\ UNCHANGED <<search_service, ai_service, threads>>

IngestRequest ==
    \E batch \in Batches :
        \E resps \in [DOMAIN batch -> IngestResponses(ai_service)] :
            ingest_reviews(batch, resps)

SearchRequest == \E q \in Queries, k \in 1..MaxK : search_reviews(q, k)

Next ==
    \/ IngestRequest
    \/ SearchRequest
    \/ lifespan
    \/ drop_all

Spec == Init /\ [][Next]_vars

(***************************************************************************)
(* Calls of the AIService operations.                                      *)
(***************************************************************************)
\* the values settings.cohere_api_key can have under a service in this mode
SettingsKeys(self) == IF self.use_local THEN {"None", "key"} ELSE {"key"}

Ratings == {1, 5}

\* the sentiment values generate_reply is called with: the three labels, and
\* one value outside them
Sentiments == {"positive", "negative", "neutral", "mixed"}

Topics == {"service", "other"}

\* ai_service.analyze_sentiment(text)
AnalyzeSentimentCall ==
    \E text \in AiTexts \cup TagTexts, resp \in SentimentResponses(ai_service) :
        /\ out' = [op |-> "analyze_sentiment", text |-> text, resp |-> resp,
                   result |-> analyze_sentiment(ai_service, text, resp)]
        /\ UNCHANGED <<store, search_service, ai_service, log, hist, threads>>

\* ai_service.extract_topic(text)
ExtractTopicCall ==
    \E text \in TagTexts :
        /\ out' = [op |-> "extract_topic", text |-> text, result |-> TopicOf[text]]
        /\ UNCHANGED <<store, search_service, ai_service, log, hist, threads>>

\* ai_service.generate_reply(review_text, rating, sentiment, topic)
GenerateReplyCall ==
    \E review_text \in AiTexts, rating \in Ratings, sentiment \in Sentiments,
       topic \in Topics, gen \in Generations, key \in SettingsKeys(ai_service) :
        \E pick \in DOMAIN TemplateBank(sentiment) :
            \E r \in {generate_reply(ai_service, key, review_text, rating, sentiment, topic, gen, pick)} :
                /\ out' = [op |-> "generate_reply", review_text |-> review_text,
                           rating |-> rating, sentiment |-> sentiment, gen |-> gen,
                           reply |-> r.reply, reasoning |-> r.reasoning,
                           calls |-> r.calls]
                /\ UNCHANGED <<store, search_service, ai_service, log, hist, threads>>

NextAI ==
    \/ AnalyzeSentimentCall
    \/ ExtractTopicCall
    \/ GenerateReplyCall

SpecAI == Init /\ [][NextAI]_vars

(***************************************************************************)
(* The review handlers of routes.py on tagged reviews: ingestion, the      *)
(* lookup of one review and the reply suggestion.                          *)
(***************************************************************************)
\* the review submissions whose tags are followed
TaggedReviewCreate ==
    {[id |-> "rev-001", location |-> "NYC", rating |-> 1, text |-> TxtFilthy,      date |-> "2024-01-15"],
     [id |-> "rev-001", location |-> "LA",  rating |-> 3, text |-> TxtGreatButBad, date |-> "2024-02-20"],
     [id |-> "rev-002", location |-> "NYC", rating |-> 2, text |-> TxtDirtyFood,   date |-> "2024-01-15"],
     [id |-> "rev-002", location |-> "LA",  rating |-> 5, text |-> TxtGreatPizza,  date |-> "2024-02-20"]}

TaggedBatches == UNION {[1..n -> TaggedReviewCreate] : n \in 0..MaxBatch}

\* the ids the single-review handlers are asked for
RequestIds == ReviewIdSet \cup {"nonexistent"}

\* db.query(Review).filter(Review.id == review_id).first() is not None
Exists(db, review_id) == \E i \in DOMAIN db : db[i].id = review_id

\* raise HTTPException(status_code=404, detail="Review not found")
NotFound(op, review_id) ==
    /\ out' = [op |-> op, review_id |-> review_id, status |-> 404,
               detail |-> "Review not found", calls |-> <<>>]
    /\ log' = "None"
    /\ UNCHANGED <<store, search_service, ai_service, hist, threads>>

\* an exception that leaves the handler
ServerError(op, review_id, calls) ==
    /\ out' = [op |-> op, review_id |-> review_id, status |-> 500, calls |-> calls]
    /\ log' = "None"
    /\ UNCHANGED <<store, search_service, ai_service, hist, threads>>

\* GET /reviews/{review_id}
get_review(review_id) ==
    IF ~Exists(store, review_id) THEN NotFound("get_review", review_id)
    ELSE /\ out' = [op |-> "get_review", review_id |-> review_id, status |-> 200,
                    review |-> store[RowOf(store, review_id)], calls |-> <<>>]
         /\ log' = "None"
         /\ UNCHANGED <<store, search_service, ai_service, hist, threads>>

\* suggest_reply lines 171-173: the sentiment is computed when it is unset
ensure_sentiment(self, review, resp) ==
    IF review.sentiment = "None"
    THEN [review EXCEPT !.sentiment = analyze_sentiment(self, review.text, resp)]
    ELSE review

\* suggest_reply lines 175-177: the topic is computed when it is unset
ensure_topic(review) ==
    IF review.topic = "None" THEN [review EXCEPT !.topic = TopicOf[review.text]] ELSE review

\* the analysis calls lines 171-177 make for a row
tag_calls(review) ==
    (IF review.sentiment = "None"
     THEN <<[step |-> "analyze_sentiment", text |-> review.text]>> ELSE <<>>)
    \o
    (IF review.topic = "None"
     THEN <<[step |-> "extract_topic", text |-> review.text]>> ELSE <<>>)

\* suggest_reply lines 179-201: the reply generated for the tagged row i
suggest_tagged(i, review, calls, r) ==
    IF r.raised THEN ServerError("suggest_reply", review.id, calls \o r.calls)
    ELSE /\ store' = [store EXCEPT ![i] = review]
         /\ out' = [op |-> "suggest_reply", review_id |-> review.id, status |-> 200,
                    reply |-> r.reply,
                    tags |-> [sentiment |-> review.sentiment, topic |-> review.topic],
                    reasoning_log |-> r.reasoning,
                    calls |-> calls \o r.calls]
         /\ log' = "None"
         /\ UNCHANGED <<search_service, ai_service, hist, threads>>

\* suggest_reply lines 170-201, for the row i the query found
suggest_found(i, review, cohere_api_key, gen, pick) ==
    IF review.sentiment = Raised
    THEN ServerError("suggest_reply", review.id, tag_calls(store[i]))
    ELSE /\ pick \in DOMAIN TemplateBank(review.sentiment)
         /\ suggest_tagged(i, review, tag_calls(store[i]),
                           generate_reply(ai_service, cohere_api_key, review.text, review.rating,
                                          review.sentiment, review.topic, gen, pick))

\* suggest_reply without the check of lines 167-168: the attribute access
\* on None raises
suggest_reply_unchecked(review_id, resp, cohere_api_key, gen, pick) ==
    IF ~Exists(store, review_id) THEN ServerError("suggest_reply", review_id, <<>>)
    ELSE \E i \in {RowOf(store, review_id)} :
             suggest_found(i, ensure_topic(ensure_sentiment(ai_service, store[i], resp)),
                           cohere_api_key, gen, pick)

\* POST /reviews/{review_id}/suggest-reply
suggest_reply(review_id, resp, cohere_api_key, gen, pick) ==
    IF ~Exists(store, review_id) THEN NotFound("suggest_reply", review_id)
    ELSE \E i \in {RowOf(store, review_id)} :
             suggest_found(i, ensure_topic(ensure_sentiment(ai_service, store[i], resp)),
                           cohere_api_key, gen, pick)

TaggedIngestRequest ==
    \E batch \in TaggedBatches :
        \E resps \in [DOMAIN batch -> SentimentResponses(ai_service)] :
            ingest_reviews(batch, resps)

GetReviewRequest == \E review_id \in RequestIds : get_review(review_id)

SuggestReplyRequest ==
    \E review_id \in RequestIds, resp \in SentimentResponses(ai_service),
       key \in SettingsKeys(ai_service), gen \in Generations, pick \in 1..2 :
        suggest_reply(review_id, resp, key, gen, pick)

NextApi ==
    \/ TaggedIngestRequest
    \/ GetReviewRequest
    \/ SuggestReplyRequest

SpecApi == Init /\ [][NextApi]_vars

(***************************************************************************)
(* A refresh and a query running as two threads on the shared index.       *)
(* Each action is one statement of index_reviews or of search.             *)
(***************************************************************************)
\* the table after the loop and the commit of ingest_reviews for the batch
Committed(self, db, batch) ==
    LET r == ingest_loop(self, db, <<>>, batch, [n \in DOMAIN batch |-> ProviderRaise])
    IN  r.db \o r.pending

\* the tables the concurrent run starts from, each with its index built
BuiltTables(self) ==
    {Committed(self, <<>>, <<[id |-> "rev-001", location |-> "NYC", rating |-> 5,
                              text |-> TxtGreatPizza, date |-> "2024-01-15"]>>),
     Committed(self, <<>>, <<[id |-> "rev-001", location |-> "NYC", rating |-> 5,
                              text |-> TxtGreatPizza, date |-> "2024-01-15"],
                             [id |-> "rev-002", location |-> "NYC", rating |-> 5,
                              text |-> TxtPizza, date |-> "2024-01-15"]>>)}

InitConc ==
    /\ ai_service \in AIServices
    /\ store \in BuiltTables(ai_service)
    /\ search_service = index_reviews(SearchService__init__, store).self
    /\ log = "None"
    /\ out = [op |-> "none"]
    /\ hist = NoHistory
    /\ threads = [Idle EXCEPT !.pre = search_service, !.post = search_service]

\* routes.py 41-75 and search_service.py 30: the batch is committed and the
\* refresh reads the table
RefreshBegin ==
    /\ threads.refresh.pc = "idle"
    /\ \E review_data \in ReviewCreate :
           \E db \in {Committed(ai_service, store, <<review_data>>)} :
               /\ store' = db
               /\ threads' = [threads EXCEPT !.refresh.pc = "ids",
                                             !.refresh.reviews = db,
                                             !.post = index_reviews(search_service, db).self]
    /\ UNCHANGED <<search_service, ai_service, log, out, hist>>

\* search_service.py 38: self.review_ids = [...]
RefreshIds ==
    /\ threads.refresh.pc = "ids"
    /\ search_service' = [search_service EXCEPT
           !.review_ids = [i \in DOMAIN threads.refresh.reviews |-> threads.refresh.reviews[i].id]]
    /\ threads' = [threads EXCEPT !.refresh.pc = "fit"]
    /\ UNCHANGED <<store, ai_service, log, out, hist>>

\* search_service.py 42, the call: fit_transform refits self.vectorizer in
\* place, or raises
RefreshFit ==
    /\ threads.refresh.pc = "fit"
    /\ \E ft \in {FitOf[[i \in DOMAIN threads.refresh.reviews |-> threads.refresh.reviews[i].text]]} :
           IF ft.ok
           THEN /\ search_service' = [search_service EXCEPT !.vectorizer = ft.vectorizer]
                /\ threads' = [threads EXCEPT !.refresh.pc = "assign", !.refresh.X = ft.X]
           ELSE /\ threads' = [threads EXCEPT !.refresh.pc = "except"]
                /\ UNCHANGED search_service
    /\ UNCHANGED <<store, ai_service, log, out, hist>>

\* search_service.py 42, the assignment: self.review_vectors = ...
RefreshAssign ==
    /\ threads.refresh.pc = "assign"
    /\ search_service' = [search_service EXCEPT !.review_vectors = threads.refresh.X]
    /\ threads' = [threads EXCEPT !.refresh.pc = "done"]
    /\ UNCHANGED <<store, ai_service, log, out, hist>>

\* search_service.py 44-46: self.review_vectors = None
RefreshExcept ==
    /\ threads.refresh.pc = "except"
    /\ search_service' = [search_service EXCEPT !.review_vectors = None]
    /\ threads' = [threads EXCEPT !.refresh.pc = "done"]
    /\ UNCHANGED <<store, ai_service, log, out, hist>>

\* what search hands back to the route
Returned(q, k, results) ==
    [op |-> "search", status |-> 200, query |-> q, k |-> k, results |-> results,
     response |-> SelectSeq(results, LAMBDA t : \E i \in DOMAIN store : store[i].id = t[1])]

\* search_service.py 66-70: build the index if there are no vectors, return
\* the empty list if there are still none
SearchBegin ==
    /\ threads.search.pc = "idle"
    /\ \E q \in Queries, k \in 1..MaxK :
           \E ix \in {IF search_service.review_vectors = None
                      THEN index_reviews(search_service, store).self
                      ELSE search_service} :
               /\ search_service' = ix
               /\ IF ix.review_vectors = None \/ Len(ix.review_ids) = 0
                  THEN /\ out' = Returned(q, k, <<>>)
                       /\ threads' = [threads EXCEPT !.search.pc = "done",
                                                     !.search.query = q, !.search.k = k]
                  ELSE /\ threads' = [threads EXCEPT !.search.pc = "transform",
                                                     !.search.query = q, !.search.k = k]
                       /\ UNCHANGED out
    /\ UNCHANGED <<store, ai_service, log, hist>>

\* search_service.py 74: query_vector = self.vectorizer.transform([query])
SearchTransform ==
    /\ threads.search.pc = "transform"
    /\ threads' = [threads EXCEPT
           !.search.pc = "cosine",
           !.search.query_vector = transform(search_service.vectorizer, threads.search.query)]
    /\ UNCHANGED <<store, search_service, ai_service, log, out, hist>>

\* search_service.py 77: cosine_similarity(query_vector, self.review_vectors);
\* it raises on None and on rows of another width, and search returns []
SearchCosine ==
    /\ threads.search.pc = "cosine"
    /\ \E X \in {search_service.review_vectors} :
           IF X = None \/ \E i \in DOMAIN X : Len(X[i]) # Len(threads.search.query_vector)
           THEN /\ out' = Returned(threads.search.query, threads.search.k, <<>>)
                /\ threads' = [threads EXCEPT !.search.pc = "done"]
           ELSE /\ threads' = [threads EXCEPT
                       !.search.pc = "collect",
                       !.search.similarities =
                           [i \in DOMAIN X |-> cosine_similarity(threads.search.query_vector, X[i])]]
                /\ UNCHANGED out
    /\ UNCHANGED <<store, search_service, ai_service, log, hist>>

\* search_service.py 80-89: the loop over the top indices reads self.review_ids
SearchCollect ==
    /\ threads.search.pc = "collect"
    /\ \E results \in collect(search_service.review_ids, threads.search.similarities,
                              threads.search.k) :
           out' = Returned(threads.search.query, threads.search.k, results)
    /\ threads' = [threads EXCEPT !.search.pc = "done"]
    /\ UNCHANGED <<store, search_service, ai_service, log, hist>>

NextConc ==
    \/ RefreshBegin
    \/ RefreshIds
    \/ RefreshFit
    \/ RefreshAssign
    \/ RefreshExcept
    \/ SearchBegin
    \/ SearchTransform
    \/ SearchCosine
    \/ SearchCollect

SpecConc == InitConc /\ [][NextConc]_vars

(***************************************************************************)
(* Properties of the similarity index.                                     *)
(***************************************************************************)
IndexEmpty(self) == self.review_ids = <<>> /\ self.review_vectors = None

\* the service holds exactly what a build over the corpus produces
BuiltFrom(self, corpus) ==
    /\ corpus # <<>>
    /\ LET ft == FitOf[[i \in DOMAIN corpus |-> corpus[i].text]]
       IN  /\ ft.ok
           /\ self.review_ids = [i \in DOMAIN corpus |-> corpus[i].id]
           /\ self.review_vectors = ft.X
           /\ self.vectorizer = ft.vectorizer

\* C2: in every reachable state the index is either fully absent (no ids and
\* no vectors) or its id list and its document vectors have equal length and
\* both come from the same corpus snapshot.
C2_AbsentOrConsistent ==
    \/ IndexEmpty(search_service)
    \/ /\ search_service.review_vectors # None
       /\ Len(search_service.review_ids) = Len(search_service.review_vectors)
       /\ BuiltFrom(search_service, hist.snapshot)

\* C3: a build or refresh whose corpus is empty leaves the index Empty (ids
\* and vectors both cleared) and raises no error, also when the index was
\* Built before the call.
C3_EmptyCorpusClears ==
    (hist.called /\ hist.last_corpus = <<>>) =>
        /\ IndexEmpty(search_service)
        /\ out.op = "ingest" => out.status = 200

\* C4: a query returns the empty sequence whenever the corpus of the most
\* recent build or refresh was empty (or the index was never built and the
\* store is empty), whatever operations came before.
C4_EmptyCorpusQueryEmpty ==
    (out.op = "search" /\ hist.called /\ hist.last_corpus = <<>>) => out.results = <<>>

\* the similarity of every indexed document to the query, on the current index
SimilaritiesNow(q) ==
    LET qv == transform(search_service.vectorizer, q)
    IN  [i \in DOMAIN search_service.review_vectors |->
            cosine_similarity(qv, search_service.review_vectors[i])]

\* C5: search returns at most k results, every returned score is above the
\* 0.01 floor, the results are in non-increasing order of score, and they are
\* the k highest-scoring indexed documents that pass the floor.
C5_TopKAboveFloor ==
    out.op = "search" =>
        LET res == out.results
        IN  /\ Len(res) <= out.k
            /\ \A n \in DOMAIN res : res[n][2] > min_similarity
            /\ \A m, n \in DOMAIN res : m < n => res[m][2] >= res[n][2]
            /\ IF search_service.review_vectors = None THEN res = <<>>
               ELSE LET sims    == SimilaritiesNow(out.query)
                        passing == {i \in DOMAIN sims : sims[i] > min_similarity}
                        want    == IF out.k < Cardinality(passing) THEN out.k
                                   ELSE Cardinality(passing)
                    IN  /\ Len(res) = want
                        /\ \E f \in [DOMAIN res -> passing] :
                               /\ \A m, n \in DOMAIN res : m # n => f[m] # f[n]
                               /\ \A n \in DOMAIN res :
                                      res[n] = <<search_service.review_ids[f[n]], sims[f[n]]>>
                               /\ \A n \in DOMAIN res : \A j \in passing :
                                      (\A m \in DOMAIN res : f[m] # j) => sims[f[n]] >= sims[j]

\* C5 witness: two indexed documents pass the floor with different scores and
\* a query for one result has returned one
C5_Witness ==
    /\ out.op = "search"
    /\ out.k = 1
    /\ Len(out.results) = 1
    /\ search_service.review_vectors # None
    /\ \E i, j \in DOMAIN search_service.review_vectors :
           /\ SimilaritiesNow(out.query)[i] > SimilaritiesNow(out.query)[j]
           /\ SimilaritiesNow(out.query)[j] > min_similarity

\* C6: a failure during vectorization is not raised to the caller and leaves
\* the index Empty (ids and vectors both cleared); an ingestion whose refresh
\* fails this way still commits its reviews and reports success.
C6_FailureClearsIndex ==
    log = "Error indexing reviews" =>
        /\ IndexEmpty(search_service)
        /\ out.op = "ingest" =>
               /\ out.status = 200
               /\ out.success
               /\ \A n \in DOMAIN out.request : \E i \in DOMAIN store :
                      store[i].id = out.request[n].id

\* the lists a search returns on an index freshly built over the table
RankedAgainst(db, q, k) ==
    IF db = <<>> THEN {<<>>}
    ELSE LET ft == FitOf[[i \in DOMAIN db |-> db[i].text]]
         IN  IF ft.ok
             THEN search_body([vectorizer     |-> ft.vectorizer,
                               review_vectors |-> ft.X,
                               review_ids     |-> [i \in DOMAIN db |-> db[i].id]], q, k)
             ELSE {<<>>}

\* C7: once a successful ingestion has returned, the index is absent or built
\* from the texts now in the store, and every later query is ranked against
\* those texts: no vector or vocabulary of a text that is no longer in the
\* store is used.
C7_NoStaleVector ==
    hist.refreshed =>
        /\ \/ search_service.review_vectors = None
           \/ BuiltFrom(search_service, Corpus(store))
        /\ out.op = "search" => out.results \in RankedAgainst(store, out.query, out.k)

ProviderFailed(self, resp) ==
    \/ resp.kind = "raise"
    \/ ~(self.use_local /\ self.sentiment_analyzer = "pipeline") /\ ~self.cohere_client

\* C8: analyze_sentiment never propagates an error: in every operating mode it
\* returns a label, and whenever the remote or the local path raises, the
\* label is the one the keyword heuristic computes for the text.
C8_NeverPropagates ==
    out.op = "analyze_sentiment" =>
        /\ out.result # Raised
        /\ ProviderFailed(ai_service, out.resp) => out.result = _fallback_sentiment(out.text)

\* C8 witness: the service was built without a working remote client and
\* without a local model, and the call returned the heuristic label
C8_Witness ==
    /\ out.op = "analyze_sentiment"
    /\ ~ai_service.cohere_client
    /\ ai_service.sentiment_analyzer = "None"
    /\ out.result = "negative"

\* C9: generate_reply always returns a non-empty reply text and a non-empty
\* reasoning trace, whatever the provider returns.
C9_ReplyNonEmpty ==
    out.op = "generate_reply" => out.reply # <<>> /\ out.reasoning # <<>>

\* C10: every generation step generate_reply enters, the remote one and the
\* fallback after a remote failure, is handed the sanitized text and nothing
\* else.
C10_OnlySanitizedHandedOver ==
    out.op = "generate_reply" =>
        /\ out.calls # <<>>
        /\ \A n \in DOMAIN out.calls : out.calls[n].text = _sanitize_text(out.review_text)

\* C10 witness: the remote step failed, the fallback ran, and the text with an
\* address and a number reached both steps with the placeholders in their place
C10_Witness ==
    /\ out.op = "generate_reply"
    /\ out.review_text = TxtContact
    /\ Len(out.calls) = 2
    /\ out.calls[1].step = "cohere"
    /\ out.calls[2].step = "local"
    /\ \A n \in DOMAIN out.calls :
           /\ out.calls[n].text # out.review_text
           /\ Contains(out.calls[n].text, EMAIL)
           /\ Contains(out.calls[n].text, PHONE)

\* a 3-3-4 digit group with optional separators starts at i
DigitGroupsAt(s, i) ==
    \E a, b \in {0, 1} :
        /\ \A n \in {0, 1, 2} : IsDigit(At(s, i + n))
        /\ a = 1 => At(s, i + 3) \in {"-", "."}
        /\ \A n \in {0, 1, 2} : IsDigit(At(s, i + 3 + a + n))
        /\ b = 1 => At(s, i + 6 + a) \in {"-", "."}
        /\ \A n \in {0, 1, 2, 3} : IsDigit(At(s, i + 6 + a + b + n))

\* a number with a parenthesized area code starts at i
ParenAreaCodeAt(s, i) ==
    /\ At(s, i) = "("
    /\ \A n \in {1, 2, 3} : IsDigit(At(s, i + n))
    /\ At(s, i + 4) = ")"
    /\ \E sp \in {0, 1, 2} : \E b \in {0, 1} :
           /\ \A n \in 1..sp : At(s, i + 4 + n) = " "
           /\ \A n \in {1, 2, 3} : IsDigit(At(s, i + 4 + sp + n))
           /\ b = 1 => At(s, i + 8 + sp) \in {"-", "."}
           /\ \A n \in {0, 1, 2, 3} : IsDigit(At(s, i + 8 + sp + b + n))

PhoneShaped(s) == \E i \in DOMAIN s : DigitGroupsAt(s, i) \/ ParenAreaCodeAt(s, i)

\* C11: the text generate_reply hands on after sanitization holds no
\* phone-number-shaped substring, of the 3-3-4 shape or of the shape with a
\* parenthesized area code, wherever it stood in the review; a review without
\* an address and without a number is handed on unchanged.
C11_PhonesRedacted ==
    out.op = "generate_reply" =>
        \A n \in DOMAIN out.calls :
            /\ ~PhoneShaped(out.calls[n].text)
            /\ (~PhoneShaped(out.review_text) /\ ~Contains(out.review_text, <<"@">>))
                   => out.calls[n].text = out.review_text

\* the number of keywords of the list that occur in the lower-cased text, each
\* counted once
Present(words, text) ==
    Cardinality({w \in {words[n] : n \in DOMAIN words} : Contains(lower(text), w)})

\* C18: extract_topic returns other when no keyword of the five sets occurs in
\* the lower-cased text; otherwise the topic with the highest count of
\* distinct keywords present, the first of them in the order service,
\* cleanliness, price, food, ambiance when several reach the highest count.
C18_TopicRule ==
    out.op = "extract_topic" =>
        IF \A t \in DOMAIN topic_names : Present(topic_keywords[t], out.text) = 0
        THEN out.result = "other"
        ELSE \E r \in DOMAIN topic_names :
                 /\ out.result = <<"service", "cleanliness", "price", "food", "ambiance">>[r]
                 /\ \A t \in DOMAIN topic_names :
                        Present(topic_keywords[t], out.text) <= Present(topic_keywords[r], out.text)
                 /\ \A t \in 1..(r - 1) :
                        Present(topic_keywords[t], out.text) < Present(topic_keywords[r], out.text)

\* C18 witness: two topics tie at the highest count, one keyword occurs twice
\* in the text, and the earlier topic was returned
C18_Witness ==
    /\ out.op = "extract_topic"
    /\ out.text = TxtFoodStaff
    /\ Present(kw_service, out.text) = 1
    /\ Present(kw_food, out.text) = 1
    /\ out.result = "service"

\* C19: the heuristic fallback returns neutral exactly when as many
\* positive-list words as negative-list words occur in the lower-cased text
\* (none of either included), positive when more positive ones occur, and
\* negative when more negative ones occur.
C19_FallbackRule ==
    (out.op = "analyze_sentiment" /\ ProviderFailed(ai_service, out.resp)) =>
        /\ out.result = "neutral"
               <=> Present(positive_words, out.text) = Present(negative_words, out.text)
        /\ out.result = "positive"
               <=> Present(positive_words, out.text) > Present(negative_words, out.text)
        /\ out.result = "negative"
               <=> Present(negative_words, out.text) > Present(positive_words, out.text)

\* C19 witness: one positive and one negative word occur and the fallback
\* answered neutral
C19_Witness ==
    /\ out.op = "analyze_sentiment"
    /\ out.resp.kind = "raise"
    /\ out.text = TxtGreatButBad
    /\ Present(positive_words, out.text) = 1
    /\ Present(negative_words, out.text) = 1
    /\ out.result = "neutral"

\* the fixed bank of replies for a sentiment value
BankFor(sentiment) ==
    CASE sentiment = "positive" -> {TplPositive1, TplPositive2}
      [] sentiment = "negative" -> {TplNegative1, TplNegative2}
      [] OTHER                  -> {TplNeutral1}

\* C20: when the reply comes from the template step (local mode, or the
\* fallback after a remote failure) it is a member of the bank of the given
\* sentiment, the neutral bank for any other value, and the reasoning names
\* the template approach, the sentiment and the rating.
C20_ReplyFromBank ==
    (out.op = "generate_reply" /\ out.calls[Len(out.calls)].step = "local") =>
        /\ out.reply \in BankFor(out.sentiment)
        /\ out.reasoning = <<"Generated using template-based approach for ", out.sentiment,
                             " sentiment (", <<"1", "2", "3", "4", "5">>[out.rating],
                             "-star rating).">>

\* C20 witness: the remote step failed and the fallback answered a sentiment
\* outside the three labels from the neutral bank
C20_Witness ==
    /\ out.op = "generate_reply"
    /\ Len(out.calls) = 2
    /\ out.calls[2].step = "local"
    /\ out.sentiment = "mixed"
    /\ out.reply = TplNeutral1

\* C12: after any sequence of ingestions and reply suggestions every stored
\* review's sentiment is unset or one of positive, negative, neutral, and its
\* topic is unset or one of service, cleanliness, price, food, ambiance, other.
C12_TagsInRange ==
    \A i \in DOMAIN store :
        /\ store[i].sentiment \in {"None", "positive", "negative", "neutral"}
        /\ store[i].topic \in {"None", "service", "cleanliness", "price", "food", "ambiance", "other"}

\* C12 witness: a reply has been suggested for a stored review tagged
\* negative and cleanliness
C12_Witness ==
    /\ out.op = "suggest_reply"
    /\ out.status = 200
    /\ \E i \in DOMAIN store :
           /\ store[i].id = out.review_id
           /\ store[i].sentiment = "negative"
           /\ store[i].topic = "cleanliness"

\* the last item of a request that carries the id
LastFor(request, id) ==
    CHOOSE n \in DOMAIN request :
        /\ request[n].id = id
        /\ \A m \in DOMAIN request : request[m].id = id => m <= n

\* C13: a successful ingestion of an id that is already stored updates the
\* record in place: the id has exactly one record, which carries the text,
\* rating, location and date of the new submission and the sentiment and topic
\* computed from the new text, and the table grows only by the new ids.
C13_ReingestUpdatesInPlace ==
    [][(out'.op = "ingest" /\ out'.status = 200) =>
          /\ Len(store') = Len(store)
                 + Cardinality({out'.request[n].id : n \in DOMAIN out'.request}
                               \ {store[i].id : i \in DOMAIN store})
          /\ \A n \in DOMAIN out'.request :
                 Exists(store, out'.request[n].id) =>
                     /\ Cardinality({i \in DOMAIN store' : store'[i].id = out'.request[n].id}) = 1
                     /\ \E i \in DOMAIN store' : \E m \in {LastFor(out'.request, out'.request[n].id)} :
                            /\ store'[i].id = out'.request[n].id
                            /\ store[i].id = out'.request[n].id
                            /\ store'[i].text = out'.request[m].text
                            /\ store'[i].rating = out'.request[m].rating
                            /\ store'[i].location = out'.request[m].location
                            /\ store'[i].date = out'.request[m].date
                            /\ store'[i].sentiment =
                                   analyze_sentiment(ai_service, out'.request[m].text, out'.resps[m])
                            /\ store'[i].topic = extract_topic(out'.request[m].text)
      ]_vars

\* C13 witness: the last request ingested rev-002 with a new text while
\* rev-002 was stored before rev-001, hence before that request
C13_Witness ==
    /\ out.op = "ingest"
    /\ out.status = 200
    /\ Len(out.request) = 1
    /\ out.request[1].id = "rev-002"
    /\ Len(store) = 2
    /\ store[1].id = "rev-002"
    /\ store[1].text = TxtGreatPizza
    /\ store[1].rating = 5
    /\ store[1].sentiment = "positive"
    /\ store[2].id = "rev-001"

\* C14: once a review's sentiment and topic are stamped, no operation that
\* leaves its text as it is changes either of them.
C14_TagsStableWhileTextSame ==
    [][\A i \in DOMAIN store : \A j \in DOMAIN store' :
           (/\ store'[j].id = store[i].id
            /\ store'[j].text = store[i].text
            /\ store[i].sentiment # "None"
            /\ store[i].topic # "None")
               => /\ store'[j].sentiment = store[i].sentiment
                  /\ store'[j].topic = store[i].topic
      ]_vars

\* C15 as stated: a stored review with the text "The place was filthy and
\* overpriced" is stamped with the topic cleanliness.
C15_FilthyIsCleanliness ==
    \A i \in DOMAIN store : store[i].text = TxtFilthy => store[i].topic = "cleanliness"

\* C15: a stored review with the text "The place was filthy and overpriced"
\* is stamped with the topic price: cleanliness is hit once, price twice.
C15_FilthyIsPrice ==
    \A i \in DOMAIN store :
        store[i].text = TxtFilthy =>
            /\ store[i].topic = "price"
            /\ Present(kw_cleanliness, TxtFilthy) = 1
            /\ Present(kw_price, TxtFilthy) = 2

\* C15 witness: the text has just been ingested
C15_Witness ==
    /\ out.op = "ingest"
    /\ out.status = 200
    /\ \E n \in DOMAIN out.request : out.request[n].text = TxtFilthy
    /\ \E i \in DOMAIN store : store[i].text = TxtFilthy

\* C16: a lookup or a reply suggestion for an id that is not stored answers
\* 404 without calling the AI service and leaves the table and the index as
\* they were.
C16_AbsentIdNotFound ==
    [][(out'.op \in {"get_review", "suggest_reply"} /\ ~Exists(store, out'.review_id)) =>
          /\ out'.status = 404
          /\ out'.calls = <<>>
          /\ store' = store
          /\ search_service' = search_service
      ]_vars

\* C16 witness: a reply was asked for an id that is absent from a non-empty
\* table
C16_Witness ==
    /\ out.op = "suggest_reply"
    /\ out.status = 404
    /\ out.review_id = "nonexistent"
    /\ store # <<>>
    /\ search_service.review_vectors # None

\* C17: results with equal scores come in corpus order, the earlier document
\* first, and when a tie straddles the cut at k the earlier document is the
\* one returned.
C17_TiesInCorpusOrder ==
    (out.op = "search" /\ search_service.review_vectors # None) =>
        /\ \A a, b \in DOMAIN out.results : \A i, j \in DOMAIN search_service.review_ids :
               (/\ a < b
                /\ out.results[a][2] = out.results[b][2]
                /\ search_service.review_ids[i] = out.results[a][1]
                /\ search_service.review_ids[j] = out.results[b][1])
                   => i < j
        /\ \A a \in DOMAIN out.results : \A i, j \in DOMAIN search_service.review_vectors :
               (/\ i \in DOMAIN search_service.review_ids
                /\ j \in DOMAIN search_service.review_ids
                /\ search_service.review_ids[i] = out.results[a][1]
                /\ SimilaritiesNow(out.query)[j] = out.results[a][2]
                /\ \A b \in DOMAIN out.results : out.results[b][1] # search_service.review_ids[j])
                   => i < j

====
